---- MODULE Spec2Model ----
(***************************************************************************)
(* Google Calendar MCP server: the tool-invocation pipeline of             *)
(* ToolRegistry.registerAll, the list-events preprocessing and the         *)
(* multi-calendar aggregation of ListEventsHandler, the update-event       *)
(* schema refinements, the recurring event modification engine, the batch  *)
(* request engine and the get-freebusy handler.                            *)
(*                                                                         *)
(* Strings whose characters matter (event start keys) are sequences of     *)
(* one-character strings; all other strings are opaque TLA+ strings.       *)
(***************************************************************************)
EXTENDS Integers, Sequences, FiniteSets, TLC

VARIABLES pc,          \* position of the invocation inside the registered callback
          tool,        \* name of the invoked tool
          args,        \* raw arguments of the invocation
          now,         \* value of "new Date()" read by the update-event refinement
          processed,   \* processedArgs handed to executeWithHandler
          handlers,    \* handler instances constructed ("new tool.handler()")
          batchEngines,\* BatchRequestHandler instances constructed
          apiCalls,    \* calls issued to the calendar API, in order
          responses,   \* sub-responses returned by executeBatch
          events,      \* allEvents returned by fetchEvents
          stderr,      \* (calendarId, error) pairs written to process.stderr
          result,      \* what the caller of the tool receives
          series,      \* the event an update targets, as the calendar holds it
          batch,       \* the batch engine: HTTP sends issued, status of the last
                       \* whole call, parts of the multipart response
          call,        \* a function or handler method called directly, as the
                       \* unit tests call it: its arguments and what it returned
          invocations  \* the list-events invocations in flight side by side

vars == <<pc, tool, args, now, processed, handlers, batchEngines, apiCalls,
          responses, events, stderr, result, series, batch, call, invocations>>

----------------------------------------------------------------------------
(* Bounds of the model *)

\* length of the exhaustively enumerated calendarId arrays
MaxLen == 3
\* events carried by all sub-responses of one call together
MaxEvents == 2
\* instants the clock and futureStartDate range over: 0..MaxTime
MaxTime == 2

(* Program constants *)

\* "Maximum 50 calendars allowed per request"
MaxCalendars == 50

----------------------------------------------------------------------------
(* Characters and strings of start keys *)

\* UTF-16 code unit of a character: the order of the < operator on strings
CodeUnit(c) ==
    CASE c = "+" -> 43
      [] c = "-" -> 45
      [] c = "1" -> 49
      [] c = "T" -> 84

\* primary weight of a character in the collation String.prototype.localeCompare
\* uses: punctuation ("-") before symbols ("+") before digits before letters
CollationWeight(c) ==
    CASE c = "-" -> 1
      [] c = "+" -> 2
      [] c = "1" -> 3
      [] c = "T" -> 4

RECURSIVE LexCompare(_, _, _)
\* three-way lexicographic comparison of a and b, by collation weight or by code unit
LexCompare(a, b, useCollation) ==
    IF a = <<>> /\ b = <<>> THEN 0
    ELSE IF a = <<>> THEN -1
    ELSE IF b = <<>> THEN 1
    ELSE LET wa == IF useCollation THEN CollationWeight(Head(a)) ELSE CodeUnit(Head(a))
             wb == IF useCollation THEN CollationWeight(Head(b)) ELSE CodeUnit(Head(b))
         IN  IF wa < wb THEN -1
             ELSE IF wa > wb THEN 1
             ELSE LexCompare(Tail(a), Tail(b), useCollation)

\* a.localeCompare(b)
LocaleCompare(a, b) == LexCompare(a, b, TRUE)

\* a <= b as JavaScript compares strings (by code units)
StringLeq(a, b) == LexCompare(a, b, FALSE) <= 0

----------------------------------------------------------------------------
(* Calendar identifiers and list-events arguments *)

Ids == {"primary", "work@x.com", "home"}

\* the i-th identifier of a long request
Cal(i) == "cal" \o ToString(i)

\* a JSON value inside a parsed calendarId array
JString(s) == [type |-> "string", val |-> s]
JNumber == [type |-> "number", val |-> "7"]

Entries == {JString(id) : id \in Ids} \cup {JString(""), JNumber}

SeqsUpTo(S, n) == UNION {[1..k -> S] : k \in 0..n}

\* the array of n distinct identifiers cal1..caln
LongList(n) == [i \in 1..n |-> JString(Cal(i))]

\* calendarId as the client sends it:
\*   a string that is no bracketed text, a bracketed string that JSON.parse
\*   rejects, a bracketed string that parses to an array, or a non-string value
PlainString(s) == [type |-> "string", bracketed |-> FALSE, text |-> s,
                   jsonOk |-> FALSE, elems |-> <<>>]
BadJson == [type |-> "string", bracketed |-> TRUE, text |-> "[",
            jsonOk |-> FALSE, elems |-> <<>>]
JsonArray(es) == [type |-> "string", bracketed |-> TRUE, text |-> "[..]",
                  jsonOk |-> TRUE, elems |-> es]
RawArray(es) == [type |-> "array", bracketed |-> FALSE, text |-> "",
                 jsonOk |-> FALSE, elems |-> es]

CalendarIdInputs ==
    {PlainString(s) : s \in Ids \cup {""}}
    \cup {BadJson}
    \cup {JsonArray(es) : es \in SeqsUpTo(Entries, MaxLen)}
    \cup {JsonArray(LongList(MaxCalendars)), JsonArray(LongList(MaxCalendars + 1))}
    \cup {RawArray(<<JString("primary")>>), RawArray(<<>>)}

\* timeMin / timeMax as sent: "absent", "valid" (an RFC3339 string with offset)
\* or "malformed" (any other string)
ListEventsInputs ==
    {[calendarId |-> c, timeMin |-> t[1], timeMax |-> t[2]] :
        c \in CalendarIdInputs,
        t \in {<<"absent", "absent">>, <<"valid", "valid">>, <<"malformed", "absent">>}}

----------------------------------------------------------------------------
(* Schema validation and preprocessing of list-events *)

\* ToolSchemas['list-events'].parse: the issues found (none: the arguments pass)
ListEventsSchemaIssues(a) ==
    (IF a.calendarId.type # "string" THEN {"calendarId: Expected string"} ELSE {})
    \cup (IF a.timeMin = "malformed" THEN {"timeMin: Must be RFC3339 format with timezone"} ELSE {})
    \cup (IF a.timeMax = "malformed" THEN {"timeMax: Must be RFC3339 format with timezone"} ELSE {})

\* parsed.every(id => typeof id === 'string' && id.length > 0)
AllNonEmptyStrings(es) ==
    \A i \in 1..Len(es) : es[i].type = "string" /\ es[i].val # ""

\* variant: duplicates are not detected
HasDuplicatesNever(es) == FALSE

\* new Set(parsed).size !== parsed.length
HasDuplicates(es) == Cardinality({es[i] : i \in 1..Len(es)}) # Len(es)

\* variant: the limit is off by one
TooManyCalendarsOffByOne(es) == Len(es) > MaxCalendars + 1

TooManyCalendars(es) == Len(es) > MaxCalendars

\* the checks on an array of calendar ids, in the order of the code:
\* "" when all pass, else the message of the first that fails
ArrayChecksJson(es) ==
    IF ~AllNonEmptyStrings(es) THEN "JSON string must contain an array of non-empty strings"
    ELSE IF Len(es) = 0 THEN "At least one calendar ID is required"
    ELSE IF TooManyCalendars(es) THEN "Maximum 50 calendars allowed per request"
    ELSE IF HasDuplicates(es) THEN "Duplicate calendar IDs are not allowed"
    ELSE ""

ArrayChecksDirect(es) ==
    IF Len(es) = 0 THEN "At least one calendar ID is required"
    ELSE IF TooManyCalendars(es) THEN "Maximum 50 calendars allowed per request"
    ELSE IF ~AllNonEmptyStrings(es) THEN "All calendar IDs must be non-empty strings"
    ELSE IF HasDuplicates(es) THEN "Duplicate calendar IDs are not allowed"
    ELSE ""

Strings(es) == [i \in 1..Len(es) |-> es[i].val]

\* trim().startsWith('[') && trim().endsWith(']') on a string argument
IsBracketedString(c) == c.type = "string" /\ c.bracketed

\* the list-events handlerFunction: [error |-> "" or the message thrown,
\* isArray, ids |-> the processed calendarId (a one-element list for a string)]
PreprocessListEvents(a) ==
    LET c == a.calendarId
        fail(msg) == [error |-> msg, isArray |-> FALSE, ids |-> <<>>]
        afterArrayChecks(es) ==
            IF ArrayChecksDirect(es) # "" THEN fail(ArrayChecksDirect(es))
            ELSE [error |-> "", isArray |-> TRUE, ids |-> Strings(es)]
    IN  IF IsBracketedString(c)
        THEN IF ~c.jsonOk
             THEN fail("Invalid JSON format for calendarId: Unexpected token")
             ELSE IF ArrayChecksJson(c.elems) # ""
             THEN fail("Invalid JSON format for calendarId: " \o ArrayChecksJson(c.elems))
             ELSE afterArrayChecks(c.elems)
        ELSE IF c.type = "array"
        THEN afterArrayChecks(c.elems)
        ELSE [error |-> "", isArray |-> FALSE, ids |-> <<c.text>>]

----------------------------------------------------------------------------
(* update-event arguments and schema *)

\* futureStartDate as sent: absent, the empty string, an RFC3339 string naming
\* instant t, or another string the RFC3339 check rejects (t = -1: new Date()
\* gives Invalid Date)
FutureStartDates ==
    {[kind |-> "absent", t |-> -1], [kind |-> "empty", t |-> -1]}
    \cup {[kind |-> "rfc3339", t |-> t] : t \in 0..MaxTime}
    \cup {[kind |-> "other", t |-> t] : t \in {-1, 0}}

\* structure: "ok", "missingRequired" (calendarId, eventId or timeZone is absent)
\* or "badFormat" (start or end fails the RFC3339 check)
UpdateEventInputs ==
    [structure : {"ok", "missingRequired", "badFormat"},
     modificationScope : {"absent", "all", "thisEventOnly", "thisAndFollowing", "single"},
     originalStartTime : {"absent", "valid", "malformed"},
     futureStartDate : FutureStartDates]

\* issues of the z.object(...) itself, before the refinements
UpdateEventBaseIssues(a) ==
    (IF a.structure = "missingRequired" THEN {"timeZone: Required"} ELSE {})
    \cup (IF a.structure = "badFormat" THEN {"start: Must be RFC3339 format with timezone"} ELSE {})
    \cup (IF a.modificationScope = "single" THEN {"modificationScope: Invalid enum value"} ELSE {})
    \cup (IF a.originalStartTime = "malformed"
          THEN {"originalStartTime: Must be RFC3339 format with timezone"} ELSE {})
    \cup (IF a.futureStartDate.kind \in {"other", "empty"}
          THEN {"futureStartDate: Must be RFC3339 format with timezone"} ELSE {})

\* a missing required field or a value outside the enum aborts the object
\* parse: zod then runs no refinement; a failed string check does not abort
UpdateEventParseAborted(a) ==
    a.structure = "missingRequired" \/ a.modificationScope = "single"

\* variant: the first refinement is missing
RefineOriginalStartTimeMissing(a) == {}

\* variant: originalStartTime is required for every scope but 'all'
RefineOriginalStartTimeUnlessAll(a) ==
    IF a.modificationScope # "all" /\ a.originalStartTime = "absent"
    THEN {"originalStartTime is required when modificationScope is 'thisEventOnly'"}
    ELSE {}

\* first refine: thisEventOnly needs originalStartTime
RefineOriginalStartTime(a) ==
    IF a.modificationScope = "thisEventOnly" /\ a.originalStartTime = "absent"
    THEN {"originalStartTime is required when modificationScope is 'thisEventOnly'"}
    ELSE {}

\* variant: the second refinement is missing
RefineFutureStartDateRequiredMissing(a) == {}

\* !data.futureStartDate: undefined and "" are falsy
FutureStartDateFalsy(a) == a.futureStartDate.kind \in {"absent", "empty"}

\* second refine: thisAndFollowing needs futureStartDate
RefineFutureStartDateRequired(a) ==
    IF a.modificationScope = "thisAndFollowing" /\ FutureStartDateFalsy(a)
    THEN {"futureStartDate is required when modificationScope is 'thisAndFollowing'"}
    ELSE {}

\* variant: futureDate >= now
RefineFutureStartDateNotPast(a, clock) ==
    IF ~FutureStartDateFalsy(a)
       /\ ~(a.futureStartDate.t # -1 /\ a.futureStartDate.t >= clock)
    THEN {"futureStartDate must be in the future"}
    ELSE {}

\* variant: the future check is applied to the scope that uses the field only
RefineFutureStartDateForFollowingOnly(a, clock) ==
    IF a.modificationScope = "thisAndFollowing" /\ ~FutureStartDateFalsy(a)
       /\ ~(a.futureStartDate.t # -1 /\ a.futureStartDate.t > clock)
    THEN {"futureStartDate must be in the future"}
    ELSE {}

\* third refine: a futureStartDate that is given must be after "now"
RefineFutureStartDateInFuture(a, clock) ==
    IF ~FutureStartDateFalsy(a)
       /\ ~(a.futureStartDate.t # -1 /\ a.futureStartDate.t > clock)
    THEN {"futureStartDate must be in the future"}
    ELSE {}

\* ToolSchemas['update-event'].parse: the issues of the ZodError (none: passes)
UpdateEventSchemaIssues(a, clock) ==
    UpdateEventBaseIssues(a)
    \cup (IF UpdateEventParseAborted(a) THEN {}
          ELSE RefineOriginalStartTime(a)
               \cup RefineFutureStartDateRequired(a)
               \cup RefineFutureStartDateInFuture(a, clock))

----------------------------------------------------------------------------
(* Events and responses of the calendar API *)

NoString == <<>>

\* start of an event as the API returns it: no start, an all-day date, or a
\* date-time with a positive or a negative UTC offset
StartValues ==
    {[dateTime |-> NoString, date |-> NoString],
     [dateTime |-> NoString, date |-> <<"1">>],
     [dateTime |-> <<"1", "T", "+">>, date |-> NoString],
     [dateTime |-> <<"1", "T", "-">>, date |-> NoString]}

\* the j-th item of the response for position i of the request
ApiEvent(i, j, start) == [id |-> <<i, j>>, start |-> start]

\* item lists of exactly k events for position i
ItemLists(i, k) ==
    {[j \in 1..k |-> ApiEvent(i, j, st[j])] : st \in [1..k -> StartValues]}

\* a sub-response: a 200 with an items array, or one of the failures
OkResponse(items) == [statusCode |-> 200, hasItems |-> TRUE, items |-> items,
                      errorMessage |-> "", message |-> ""]
FailedResponses ==
    {[statusCode |-> 404, hasItems |-> FALSE, items |-> <<>>,
      errorMessage |-> "Not Found", message |-> ""],
     [statusCode |-> 500, hasItems |-> FALSE, items |-> <<>>,
      errorMessage |-> "", message |-> "Backend Error"],
     [statusCode |-> 200, hasItems |-> FALSE, items |-> <<>>,
      errorMessage |-> "", message |-> ""]}

\* a part of the multipart response whose status line or body cannot be read
GarbledPart == [statusCode |-> 0, hasItems |-> FALSE, items |-> <<>>,
                errorMessage |-> "", message |-> ""]

\* what a part of the multipart response may be, items aside
PartsWithoutItems == FailedResponses \cup {GarbledPart}

RECURSIVE TotalItems(_)
TotalItems(rs) == IF rs = <<>> THEN 0 ELSE Len(Head(rs).items) + TotalItems(Tail(rs))

RECURSIVE BatchesUpTo(_, _)
\* all response lists for positions 1..n that carry at most budget events
BatchesUpTo(n, budget) ==
    IF n = 0 THEN {<<>>}
    ELSE UNION {
           {Append(rest, r) :
               r \in PartsWithoutItems
                     \cup {OkResponse(items) :
                             items \in UNION {ItemLists(n, k) :
                                                k \in 0..(budget - TotalItems(rest))}}}
           : rest \in BatchesUpTo(n - 1, budget)}

\* response lists for a long request: the first and the last position may
\* carry one event each, every other position gets the same response
LongBatches(n, budget) ==
    {[i \in 1..n |-> IF i \in P THEN OkResponse(<<ApiEvent(i, 1, st)>>) ELSE other] :
        P \in {Q \in SUBSET {1, n} : Cardinality(Q) <= budget},
        st \in StartValues,
        other \in PartsWithoutItems \cup {OkResponse(<<>>)}}

\* the multipart response of the batch endpoint to n sub-requests: n parts, in
\* request order
BatchResponses(n) ==
    IF n <= Cardinality(Ids) THEN BatchesUpTo(n, MaxEvents) ELSE LongBatches(n, MaxEvents)

\* what events.list may return for one calendar: data.items, or no items field
SingleResponses ==
    {[hasItems |-> TRUE, items |-> items] :
        items \in UNION {ItemLists(1, k) : k \in 0..MaxEvents}}
    \cup {[hasItems |-> FALSE, items |-> <<>>]}

----------------------------------------------------------------------------
(* The batch request engine (BatchRequestHandler) *)

\* the fixed attempt ceiling of the retry policy
MaxAttempts == 3

NoBatch == [sends |-> 0, last |-> "none", parts |-> <<>>]

\* how a whole batch call may fail: no response at all, or a status for the
\* entire call
WholeCallFailures == {"transport", "429", "5xx", "4xx"}

\* transport failure, rate limiting and transient server errors
Retryable(failure) == failure \in {"transport", "429", "5xx"}

\* variant: every failed call is sent again
ShouldRetryAnyFailure(failure, sends) == sends < MaxAttempts

\* the whole call is sent again after a retryable failure, up to the ceiling
ShouldRetry(failure, sends) == Retryable(failure) /\ sends < MaxAttempts

\* the sequence of sub-requests must be non-empty and within the batch ceiling
BatchSizeIssue(requests) ==
    IF Len(requests) = 0 THEN "No requests in batch"
    ELSE IF Len(requests) > MaxCalendars THEN "Batch exceeds 50 requests"
    ELSE ""

\* the outcome reported for a part that fails to parse
ParseErrorOutcome == [statusCode |-> 0, hasItems |-> FALSE, items |-> <<>>,
                      errorMessage |-> "", message |-> "Failed to parse response part"]

\* status and parsed body of one part, or the error outcome
ParsePart(part) == IF part = GarbledPart THEN ParseErrorOutcome ELSE part

IsReadable(part) == part # GarbledPart

\* variant: parts that fail to parse are skipped
ParseBatchResponseSkipping(parts) == SelectSeq(parts, IsReadable)

\* one outcome per part, at the position of the part
ParseBatchResponse(parts) == [i \in 1..Len(parts) |-> ParsePart(parts[i])]

----------------------------------------------------------------------------
(* ListEventsHandler *)

\* variant: the single-call path is taken only for an empty set
IsSingleCalendarNever(calendarIds) == Len(calendarIds) = 0

\* fetchEvents: the single-call path is taken for exactly one calendar
IsSingleCalendar(calendarIds) == Len(calendarIds) = 1

\* the timeMin / timeMax pair a request carries: only when truthy
PathOption(t) == IF t = "absent" THEN "" ELSE t

\* buildEventsPath
BuildEventsPath(calendarId, options) ==
    [method |-> "GET", calendarId |-> calendarId, singleEvents |-> "true",
     orderBy |-> "startTime", timeMin |-> PathOption(options.timeMin),
     timeMax |-> PathOption(options.timeMax)]

\* variant: the sub-requests are built in reverse order
BuildRequestsReversed(calendarIds, options) ==
    [i \in 1..Len(calendarIds) |->
        BuildEventsPath(calendarIds[Len(calendarIds) + 1 - i], options)]

\* the sub-requests of fetchMultipleCalendarEvents
BuildRequests(calendarIds, options) ==
    [i \in 1..Len(calendarIds) |-> BuildEventsPath(calendarIds[i], options)]

\* variant: the last item of a sub-response is lost
TagEventsDropLast(items, calendarId) ==
    [j \in 1..(Len(items) - 1) |-> [id |-> items[j].id, start |-> items[j].start,
                                    calendarId |-> calendarId]]

\* { ...event, calendarId }
TagEvents(items, calendarId) ==
    [j \in 1..Len(items) |-> [id |-> items[j].id, start |-> items[j].start,
                              calendarId |-> calendarId]]

\* variant: the status alone decides
IsSuccessfulByStatus(response) == response.statusCode = 200

\* response.statusCode === 200 && response.body?.items
IsSuccessful(response) == response.statusCode = 200 /\ response.hasItems

\* body.error.message || body.message || `HTTP ${statusCode}`
ErrorMessageOf(response) ==
    IF response.errorMessage # "" THEN response.errorMessage
    ELSE IF response.message # "" THEN response.message
    ELSE "HTTP " \o ToString(response.statusCode)

\* variant: every sub-response is attributed to the first calendar
CalendarAtFirst(calendarIds, index) == calendarIds[1]

\* the calendar a sub-response at position index belongs to
CalendarAt(calendarIds, index) == calendarIds[index]

\* the forEach callback at position index: what it pushes to events and errors
ProcessOne(rs, calendarIds, index) ==
    LET calendarId == CalendarAt(calendarIds, index)
        response == rs[index]
    IN  IF IsSuccessful(response)
        THEN [events |-> TagEvents(response.items, calendarId), errors |-> <<>>]
        ELSE [events |-> <<>>,
              errors |-> <<[calendarId |-> calendarId,
                            error |-> ErrorMessageOf(response)]>>]

RECURSIVE ProcessRange(_, _, _, _)
\* events and errors pushed by the forEach callback for positions lo..hi, in
\* order of position (the range is halved to keep the evaluation shallow)
ProcessRange(rs, calendarIds, lo, hi) ==
    IF lo > hi THEN [events |-> <<>>, errors |-> <<>>]
    ELSE IF lo = hi THEN ProcessOne(rs, calendarIds, lo)
    ELSE LET mid == (lo + hi) \div 2
             left == ProcessRange(rs, calendarIds, lo, mid)
             right == ProcessRange(rs, calendarIds, mid + 1, hi)
         IN  [events |-> left.events \o right.events,
              errors |-> left.errors \o right.errors]

\* processBatchResponses
ProcessBatchResponses(rs, calendarIds) == ProcessRange(rs, calendarIds, 1, Len(rs))

\* a.start?.dateTime || a.start?.date || ""
StartKey(e) ==
    IF e.start.dateTime # NoString THEN e.start.dateTime
    ELSE IF e.start.date # NoString THEN e.start.date
    ELSE NoString

\* the comparator handed to Array.prototype.sort
CompareByStart(a, b) == LocaleCompare(StartKey(a), StartKey(b))

\* variant: e placed before the elements that compare equal to it
InsertBeforeEqual(sorted, e) ==
    LET after == {i \in 1..Len(sorted) : CompareByStart(sorted[i], e) >= 0}
        k == IF after = {} THEN Len(sorted) + 1
             ELSE CHOOSE i \in after : \A j \in after : i <= j
    IN  SubSeq(sorted, 1, k - 1) \o <<e>> \o SubSeq(sorted, k, Len(sorted))

\* e placed behind every element that does not compare greater than it
InsertStable(sorted, e) ==
    LET after == {i \in 1..Len(sorted) : CompareByStart(sorted[i], e) > 0}
        k == IF after = {} THEN Len(sorted) + 1
             ELSE CHOOSE i \in after : \A j \in after : i <= j
    IN  SubSeq(sorted, 1, k - 1) \o <<e>> \o SubSeq(sorted, k, Len(sorted))

RECURSIVE SortFrom(_, _)
SortFrom(rest, sorted) ==
    IF rest = <<>> THEN sorted ELSE SortFrom(Tail(rest), InsertStable(sorted, Head(rest)))

\* variant: the merged events are returned unsorted
SortEventsSkipped(evs) == evs

\* sortEventsByStartTime: Array.prototype.sort is stable
SortEventsByStartTime(evs) == SortFrom(evs, <<>>)

----------------------------------------------------------------------------
(* Rendering.  A text is the sequence of its blocks. *)

\* event.start?.dateTime || event.start?.date || "unspecified"
StartText(e) == IF StartKey(e) = NoString THEN <<"unspecified">> ELSE StartKey(e)

\* a missing or empty htmlLink, event id, calendarId argument: all falsy
NoHtmlLink == ""
NoId == <<>>
NoCalendarId == ""

\* event.htmlLink; the items of the modelled list responses carry none
HtmlLinkOf(e) == IF "htmlLink" \in DOMAIN e THEN e.htmlLink ELSE NoHtmlLink

\* generateEventUrl(calendarId, eventId)
GenerateEventUrl(calendarId, eventId) == [eid |-> eventId, cid |-> calendarId]

\* variant: the generated URL is preferred to the htmlLink
EventLinkGeneratedFirst(e, calendarId) ==
    IF calendarId # NoCalendarId /\ e.id # NoId
    THEN [kind |-> "generated", url |-> GenerateEventUrl(calendarId, e.id)]
    ELSE IF HtmlLinkOf(e) # NoHtmlLink
    THEN [kind |-> "htmlLink", url |-> HtmlLinkOf(e)]
    ELSE [kind |-> "none"]

\* eventLink of formatEventWithUrl: the "View in Google Calendar" line
EventLink(e, calendarId) ==
    IF HtmlLinkOf(e) # NoHtmlLink
    THEN [kind |-> "htmlLink", url |-> HtmlLinkOf(e)]
    ELSE IF calendarId # NoCalendarId /\ e.id # NoId
    THEN [kind |-> "generated", url |-> GenerateEventUrl(calendarId, e.id)]
    ELSE [kind |-> "none"]

\* formatEventWithUrl(event, calendarId); the End line is built like the Start
\* line and is not carried
FormatEventWithUrl(e, calendarId) ==
    [kind |-> "event", id |-> e.id, link |-> EventLink(e, calendarId),
     start |-> StartText(e)]

\* utils.formatEventList(events, calendarId)
FormatEvents(evs, calendarId) ==
    [i \in 1..Len(evs) |-> FormatEventWithUrl(evs[i], calendarId)]

RECURSIVE GroupKeysFrom(_, _)
GroupKeysFrom(evs, keys) ==
    IF evs = <<>> THEN keys
    ELSE GroupKeysFrom(Tail(evs),
           IF \E i \in 1..Len(keys) : keys[i] = Head(evs).calendarId
           THEN keys ELSE Append(keys, Head(evs).calendarId))

\* keys of groupEventsByCalendar in Object.entries order: first appearance
GroupKeys(evs) == GroupKeysFrom(evs, <<>>)

\* variant: a group holds every event
GroupOfAll(evs, calendarId) == evs

\* grouped[calendarId]
GroupOf(evs, calendarId) ==
    LET InGroup(e) == e.calendarId = calendarId
    IN  SelectSeq(evs, InGroup)

\* `Found ${events.length} events across ${calendarIds.length} calendars:`
FoundHeader(evs, calendarIds) ==
    [kind |-> "found", events |-> Len(evs), calendars |-> Len(calendarIds)]

RECURSIVE FormatGroups(_, _)
FormatGroups(evs, keys) ==
    IF keys = <<>> THEN <<>>
    ELSE <<[kind |-> "calendar", calendarId |-> Head(keys)]>>
         \o FormatEvents(GroupOf(evs, Head(keys)), Head(keys))
         \o FormatGroups(evs, Tail(keys))

\* formatMultiCalendarEvents
FormatMultiCalendarEvents(evs, calendarIds) ==
    <<FoundHeader(evs, calendarIds)>> \o FormatGroups(evs, GroupKeys(evs))

\* variant: an empty list is rendered like any other
FormatEventListWithoutEmptyCase(evs, calendarIds) ==
    IF Len(calendarIds) = 1 THEN FormatEvents(evs, calendarIds[1])
    ELSE FormatMultiCalendarEvents(evs, calendarIds)

\* ListEventsHandler.formatEventList
FormatEventList(evs, calendarIds) ==
    IF Len(evs) = 0 THEN <<[kind |-> "none", calendars |-> Len(calendarIds)]>>
    ELSE IF Len(calendarIds) = 1 THEN FormatEvents(evs, calendarIds[1])
    ELSE FormatMultiCalendarEvents(evs, calendarIds)

\* process.stderr.write("Some calendars had errors: ..."): the entries written
ReportedToStderr(errors) == errors

Success(text) == [status |-> "ok", text |-> text, messages |-> {}]
Failure(messages) == [status |-> "error", text |-> <<>>, messages |-> messages]
NoResult == [status |-> "none", text |-> <<>>, messages |-> {}]

----------------------------------------------------------------------------
(* The recurring event modification engine (UpdateEventHandler) *)

\* what the calendar holds for the target: its kind once read, the state of
\* the master, of the addressed instance, and whether a new series exists
NoSeries == [target |-> "unknown", master |-> "intact", instance |-> "intact",
             newSeries |-> FALSE]

\* a recurring master (non-empty recurrence rule set) or a plain single event
TargetKinds == {"recurring", "single"}

\* variant: an omitted scope addresses one occurrence
ScopeOfAbsentIsInstance(a) ==
    IF a.modificationScope = "absent" THEN "thisEventOnly" ELSE a.modificationScope

\* the scope that is applied: all is the default
ScopeOf(a) == IF a.modificationScope = "absent" THEN "all" ELSE a.modificationScope

\* variant: the scope check is applied to every scope
ScopeRejectedForAnyScope(a, kind) == kind = "single"

\* variant: no scope check
ScopeRejectedNever(a, kind) == FALSE

\* a plain single event accepts no explicit scope other than all
ScopeRejected(a, kind) ==
    kind = "single" /\ a.modificationScope \notin {"absent", "all"}

ScopeOnlyForRecurring == "Scope other than 'all' only applies to recurring events"

GetCall == [api |-> "events.get", eventId |-> "master"]

\* the record a patch of the given scope addresses
PatchedId(scope) == IF scope = "thisEventOnly" THEN "instance" ELSE "master"

\* the first mutating call of each scope: the whole-record patch of the master,
\* the patch of one materialized instance, or the patch of the master's
\* recurrence rule with an UNTIL bound (step (a) of the split)
FirstMutation(a) ==
    [api |-> "events.patch", eventId |-> PatchedId(ScopeOf(a)),
     body |-> IF ScopeOf(a) = "thisAndFollowing" THEN "until" ELSE "fields"]

\* step (b) of the split
InsertCall == [api |-> "events.insert", eventId |-> "newSeries", body |-> "fields"]

\* the calendar after a patch of scope all / thisEventOnly
Patched(sr, scope) ==
    IF scope = "thisEventOnly" THEN [sr EXCEPT !.instance = "patched"]
    ELSE [sr EXCEPT !.master = "patched"]

\* variant: the master is restored when the create fails
MasterRestored(m) == "intact"

\* no compensating rollback of step (a)
MasterAfterFailedCreate(m) == m

\* calls issued after a failed step (b): none
CallsAfterFailedCreate == <<>>

PartialFailure ==
    "PartialFailure: the original series was already truncated, the new series was not created"

\* variant: the failure of step (b) is reported like any API error
SplitFailurePlain == Failure({"Google API error"})

\* the outcome of a split whose step (b) failed
SplitFailure == Failure({PartialFailure})

----------------------------------------------------------------------------
(* get-freebusy: the registered schema and FreeBusyEventHandler *)

\* calendars / items as sent: absent, [{id: "primary"}] or [{id: <an email>}];
\* times: timeMin and timeMax both RFC3339 with offset, or not;
\* range: timeMax - timeMin against 3 * 30 days
FreeBusyInputs ==
    [calendars : {"absent", "primary", "emails"},
     items : {"absent", "primary", "emails"},
     times : {"valid", "malformed"},
     range : {"within", "over"}]

\* ToolSchemas['get-freebusy'].parse: the issues of the ZodError
FreeBusySchemaIssues(a) ==
    (IF a.calendars = "absent" THEN {"calendars: Required"} ELSE {})
    \cup (IF a.times = "malformed"
          THEN {"timeMin: Must be RFC3339 format with timezone"} ELSE {})

\* the value parse returns: z.object strips the keys the schema does not name
FreeBusyValidatedArgs(a) == [a EXCEPT !.items = "absent"]

\* args.items as FreeBusyEventArgumentsSchema sees it
FreeBusyItems(v) == v.items

\* FreeBusyEventArgumentsSchema.safeParse inside runTool
FreeBusyHandlerIssues(v) ==
    (IF FreeBusyItems(v) = "absent" THEN {"items: Required"}
     ELSE IF FreeBusyItems(v) = "primary" THEN {"items.id: Must be a valid email address"}
     ELSE {})
    \cup (IF v.times = "malformed"
          THEN {"timeMin: Must be ISO format with timezone"} ELSE {})

\* isLessThanThreeMonths
IsLessThanThreeMonths(v) == v.range = "within"

\* the calendars a free/busy response may name
FreeBusyEmails == <<"a@x.com", "b@x.com">>

\* response.calendars[email].busy with k intervals
BusyOf(k) == [j \in 1..k |-> [start |-> 2 * j - 1, end |-> 2 * j]]

\* an entry of response.calendars: its errors (none, a notFound reason, some
\* other reason) and its busy intervals
FreeBusyEntries(email) ==
    [email : {email}, errors : {"none", "notFound", "other"},
     busy : {BusyOf(k) : k \in 0..MaxEvents}]

\* response.calendars in Object.entries order
FreeBusyCalendars ==
    {<<e1>> : e1 \in FreeBusyEntries(FreeBusyEmails[1])}
    \cup {<<e1, e2>> : e1 \in FreeBusyEntries(FreeBusyEmails[1]),
                       e2 \in FreeBusyEntries(FreeBusyEmails[2])}

\* what freebusy.query may answer: rejected, or a response with a calendars map
FreeBusyAnswers ==
    {[rejected |-> TRUE, calendars |-> <<>>]}
    \cup {[rejected |-> FALSE, calendars |-> c] : c \in FreeBusyCalendars}

\* one line of generateAvailabilitySummary
AvailabilityLine(entry) ==
    IF entry.errors = "notFound"
    THEN [kind |-> "cannotCheck", email |-> entry.email]
    ELSE IF entry.busy = <<>>
    THEN [kind |-> "available", email |-> entry.email]
    ELSE [kind |-> "busy", email |-> entry.email, slots |-> entry.busy]

\* variant: the calendars that were not found are left out
GenerateAvailabilitySummaryFoundOnly(calendars) ==
    LET Found(entry) == entry.errors # "notFound"
        found == SelectSeq(calendars, Found)
    IN  [i \in 1..Len(found) |-> AvailabilityLine(found[i])]

\* generateAvailabilitySummary: one line per entry of response.calendars
GenerateAvailabilitySummary(calendars) ==
    [i \in 1..Len(calendars) |-> AvailabilityLine(calendars[i])]

FreeBusyCall(v) == [api |-> "freebusy.query", items |-> FreeBusyItems(v)]

\* the outcome of FreeBusyEventHandler.runTool for processed args v, given the
\* answer of freebusy.query if it is called
FreeBusyOutcome(v, answer) ==
    IF FreeBusyHandlerIssues(v) # {}
    THEN [calls |-> <<>>,
          result |-> Failure({"Invalid arguments Error"} \cup FreeBusyHandlerIssues(v))]
    ELSE IF ~IsLessThanThreeMonths(v)
    THEN [calls |-> <<>>,
          result |-> Success(<<[kind |-> "rangeTooLong"]>>)]
    ELSE IF answer.rejected
    THEN [calls |-> <<FreeBusyCall(v)>>, result |-> Failure({"Google API error"})]
    ELSE [calls |-> <<FreeBusyCall(v)>>,
          result |-> Success(GenerateAvailabilitySummary(answer.calendars))]

----------------------------------------------------------------------------
(* create-event: the registered schema and CreateEventHandler *)

\* structure: the required strings are there or one is missing;
\* boundaries: start and end are RFC3339 date-times with offset, or dates;
\* timeZone: an IANA name, or the empty string
CreateEventInputs ==
    [structure : {"ok", "missingRequired"},
     boundaries : {"dateTime", "dateOnly"},
     timeZone : {"America/Los_Angeles", ""}]

\* ToolSchemas['create-event'].parse: the issues of the ZodError
CreateEventSchemaIssues(a) ==
    (IF a.structure = "missingRequired" THEN {"Required"} ELSE {})
    \cup (IF a.boundaries = "dateOnly"
          THEN {"start: Must be RFC3339 format with timezone"} ELSE {})

\* this.getCalendarTimezone(client, args.calendarId)
TimezoneCall == [api |-> "calendars.get"]

\* createTimeObject(args.start, timezone)
CreateTimeObject(boundary, timezone) == [value |-> boundary, timeZone |-> timezone]

\* calendar.events.insert({calendarId, requestBody})
CreateCall(a, timezone) ==
    [api |-> "events.insert",
     start |-> CreateTimeObject(a.boundaries, timezone),
     end |-> CreateTimeObject(a.boundaries, timezone)]

\* response.data of events.insert: nothing, or the event with or without link
CreatedData ==
    {[none |-> TRUE]}
    \cup {[none |-> FALSE, id |-> <<1, 1>>, htmlLink |-> h,
           start |-> [dateTime |-> <<"1", "T", "+">>, date |-> NoString]] :
             h \in {NoHtmlLink, "https://www.google.com/calendar/event?eid=1"}}

\* variant: a failed timezone lookup is caught and the default zone is used
CreateEventCatchKeepsGoing(api) ==
    [rethrown |-> api # "calendars.get", message |-> "Google API error: " \o api]

\* catch (error) { throw this.handleGoogleApiError(error) } around createEvent
CreateEventCatch(api) ==
    [rethrown |-> TRUE, message |-> "Google API error: " \o api]

\* the outcome of an external call of the invocation, as it is recorded
Outcome(api, ok) == [api |-> api, ok |-> ok]

\* "Event created successfully!" followed by the formatted event
Created(event, calendarId) ==
    <<[kind |-> "created"], FormatEventWithUrl(event, calendarId)>>

----------------------------------------------------------------------------
(* The registered tools *)

Tools == {"list-events", "update-event", "get-freebusy", "create-event"}

\* tool.handler
HandlerOf(t) ==
    CASE t = "list-events" -> "ListEventsHandler"
      [] t = "update-event" -> "UpdateEventHandler"
      [] t = "get-freebusy" -> "FreeBusyEventHandler"
      [] t = "create-event" -> "CreateEventHandler"

\* variant: no tool has a handlerFunction
HasHandlerFunctionNever(t) == FALSE

\* tool.handlerFunction is defined
HasHandlerFunction(t) == t = "list-events"

InputsOf(t) ==
    CASE t = "list-events" -> ListEventsInputs
      [] t = "update-event" -> UpdateEventInputs
      [] t = "get-freebusy" -> FreeBusyInputs
      [] t = "create-event" -> CreateEventInputs

NoArgs == [none |-> TRUE]
NoCall == [fn |-> "none"]
NoInvocations == <<>>
NoProcessed == [error |-> "", isArray |-> FALSE, ids |-> <<>>]

Init ==
    /\ pc = "idle"
    /\ tool = "none"
    /\ args = NoArgs
    /\ now = 0
    /\ processed = NoProcessed
    /\ handlers = <<>>
    /\ batchEngines = 0
    /\ apiCalls = <<>>
    /\ responses = <<>>
    /\ events = <<>>
    /\ stderr = <<>>
    /\ result = NoResult
    /\ series = NoSeries
    /\ batch = NoBatch
    /\ call = NoCall
    /\ invocations = NoInvocations

\* the client calls a tool: the registered callback starts
Invoke ==
    /\ pc = "idle"
    /\ \E t \in Tools : \E a \in InputsOf(t) :
         /\ tool' = t
         /\ args' = a
    /\ pc' = "parse"
    /\ UNCHANGED <<call, invocations, batch, series, now, processed, handlers, batchEngines, apiCalls, responses,
                   events, stderr, result>>

\* tool.schema.parse(args) of list-events
ParseListEvents ==
    /\ pc = "parse"
    /\ tool = "list-events"
    /\ LET issues == ListEventsSchemaIssues(args)
       IN  IF issues # {}
           THEN result' = Failure(issues) /\ pc' = "done"
           ELSE result' = result /\ pc' = "preprocess"
    /\ UNCHANGED <<call, invocations, batch, series, tool, args, now, processed, handlers, batchEngines, apiCalls,
                   responses, events, stderr>>

\* tool.schema.parse(args) of update-event; the third refinement reads the clock
ParseUpdateEvent ==
    /\ pc = "parse"
    /\ tool = "update-event"
    /\ \E clock \in 0..MaxTime :
         /\ now' = clock
         /\ LET issues == UpdateEventSchemaIssues(args, clock)
            IN  IF issues # {}
                THEN result' = Failure(issues) /\ pc' = "done"
                ELSE result' = result /\ pc' = "preprocess"
    /\ UNCHANGED <<call, invocations, batch, series, tool, args, processed, handlers, batchEngines, apiCalls,
                   responses, events, stderr>>

\* tool.schema.parse(args) of get-freebusy
ParseFreeBusy ==
    /\ pc = "parse"
    /\ tool = "get-freebusy"
    /\ LET issues == FreeBusySchemaIssues(args)
       IN  IF issues # {}
           THEN result' = Failure(issues) /\ pc' = "done"
           ELSE result' = result /\ pc' = "preprocess"
    /\ UNCHANGED <<call, invocations, batch, series, tool, args, now, processed, handlers, batchEngines,
                   apiCalls, responses, events, stderr>>

\* tool.schema.parse(args) of create-event
ParseCreateEvent ==
    /\ pc = "parse"
    /\ tool = "create-event"
    /\ LET issues == CreateEventSchemaIssues(args)
       IN  IF issues # {}
           THEN result' = Failure(issues) /\ pc' = "done"
           ELSE result' = result /\ pc' = "preprocess"
    /\ UNCHANGED <<call, invocations, batch, series, tool, args, now, processed, handlers,
                   batchEngines, apiCalls, responses, events, stderr>>

\* tool.handlerFunction ? await tool.handlerFunction(validatedArgs) : validatedArgs
Preprocess ==
    /\ pc = "preprocess"
    /\ IF HasHandlerFunction(tool)
       THEN LET p == PreprocessListEvents(args)
            IN  IF p.error # ""
                THEN /\ result' = Failure({p.error})
                     /\ pc' = "done"
                     /\ processed' = processed
                ELSE /\ processed' = p
                     /\ pc' = "construct"
                     /\ result' = result
       ELSE /\ processed' = processed
            /\ pc' = "construct"
            /\ result' = result
    /\ UNCHANGED <<call, invocations, batch, series, tool, args, now, handlers, batchEngines, apiCalls, responses,
                   events, stderr>>

\* new tool.handler(); executeWithHandler -> ListEventsHandler.runTool ->
\* fetchEvents -> fetchSingleCalendarEvents up to "await calendar.events.list"
RunListSingle ==
    /\ pc = "construct"
    /\ tool = "list-events"
    /\ IsSingleCalendar(processed.ids)
    /\ handlers' = Append(handlers, HandlerOf(tool))
    /\ apiCalls' = Append(apiCalls,
                     [api |-> "events.list", calendarId |-> processed.ids[1],
                      timeMin |-> args.timeMin, timeMax |-> args.timeMax,
                      singleEvents |-> TRUE, orderBy |-> "startTime"])
    /\ pc' = "awaitList"
    /\ UNCHANGED <<call, invocations, batch, series, tool, args, now, processed, batchEngines, responses, events,
                   stderr, result>>

\* ... -> fetchMultipleCalendarEvents up to "await batchHandler.executeBatch"
RunListMultiple ==
    /\ pc = "construct"
    /\ tool = "list-events"
    /\ ~IsSingleCalendar(processed.ids)
    /\ handlers' = Append(handlers, HandlerOf(tool))
    /\ batchEngines' = batchEngines + 1
    /\ LET requests == BuildRequests(processed.ids, args)
       IN  /\ apiCalls' = Append(apiCalls,
                            [api |-> "executeBatch", requests |-> requests])
           /\ IF BatchSizeIssue(requests) # ""
              THEN /\ result' = Failure({BatchSizeIssue(requests)})
                   /\ pc' = "done"
                   /\ batch' = batch
              ELSE /\ batch' = [batch EXCEPT !.sends = 1]
                   /\ pc' = "awaitBatch"
                   /\ result' = result
    /\ UNCHANGED <<call, invocations, series, tool, args, now, processed, responses, events, stderr>>

\* events.list resolves: tag, format and return
ListResolves ==
    /\ pc = "awaitList"
    /\ \E r \in SingleResponses :
         LET evs == TagEvents(r.items, processed.ids[1])
         IN  /\ events' = evs
             /\ result' = Success(FormatEventList(evs, processed.ids))
    /\ pc' = "done"
    /\ UNCHANGED <<call, invocations, batch, series, tool, args, now, processed, handlers, batchEngines, apiCalls,
                   responses, stderr>>

\* events.list rejects: handleGoogleApiError's error is rethrown to the caller
ListRejects ==
    /\ pc = "awaitList"
    /\ result' = Failure({"Google API error"})
    /\ pc' = "done"
    /\ UNCHANGED <<call, invocations, batch, series, tool, args, now, processed, handlers, batchEngines, apiCalls,
                   responses, events, stderr>>

\* the whole call fails in a way that is retried: it is sent again
BatchRetries ==
    /\ pc = "awaitBatch"
    /\ \E failure \in WholeCallFailures :
         /\ ShouldRetry(failure, batch.sends)
         /\ batch' = [batch EXCEPT !.sends = @ + 1, !.last = failure]
    /\ UNCHANGED <<call, invocations, series, pc, tool, args, now, processed, handlers, batchEngines,
                   apiCalls, responses, events, stderr, result>>

\* the whole call succeeds: the parts are parsed into the outcomes executeBatch
\* returns; the handler processes them, reports, sorts and formats
BatchResolves ==
    /\ pc = "awaitBatch"
    /\ \E parts \in BatchResponses(Len(processed.ids)) :
         LET rs == ParseBatchResponse(parts)
             p == ProcessBatchResponses(rs, processed.ids)
             sorted == SortEventsByStartTime(p.events)
         IN  /\ batch' = [batch EXCEPT !.last = "ok", !.parts = parts]
             /\ responses' = rs
             /\ stderr' = stderr \o ReportedToStderr(p.errors)
             /\ events' = sorted
             /\ result' = Success(FormatEventList(sorted, processed.ids))
    /\ pc' = "done"
    /\ UNCHANGED <<call, invocations, series, tool, args, now, processed, handlers, batchEngines, apiCalls>>

\* the whole call fails and is not sent again: executeBatch rejects and the
\* error reaches the caller
BatchRejects ==
    /\ pc = "awaitBatch"
    /\ \E failure \in WholeCallFailures :
         /\ ~ShouldRetry(failure, batch.sends)
         /\ batch' = [batch EXCEPT !.last = failure]
    /\ result' = Failure({"Batch request failed"})
    /\ pc' = "done"
    /\ UNCHANGED <<call, invocations, series, tool, args, now, processed, handlers, batchEngines, apiCalls,
                   responses, events, stderr>>

\* new FreeBusyEventHandler(); executeWithHandler -> runTool, to its end (the
\* await of freebusy.query is not a separate step: its answer is drawn here)
RunFreeBusy ==
    /\ pc = "construct"
    /\ tool = "get-freebusy"
    /\ handlers' = Append(handlers, HandlerOf(tool))
    /\ \E answer \in FreeBusyAnswers :
         LET outcome == FreeBusyOutcome(FreeBusyValidatedArgs(args), answer)
         IN  /\ apiCalls' = apiCalls \o outcome.calls
             /\ result' = outcome.result
    /\ pc' = "done"
    /\ UNCHANGED <<call, invocations, batch, series, tool, args, now, processed, batchEngines, responses,
                   events, stderr>>

\* new CreateEventHandler(); executeWithHandler -> runTool -> createEvent up
\* to its first await: the timezone lookup when args.timeZone is falsy, the
\* insert otherwise
RunCreateEvent ==
    /\ pc = "construct"
    /\ tool = "create-event"
    /\ handlers' = Append(handlers, HandlerOf(tool))
    /\ IF args.timeZone = ""
       THEN /\ apiCalls' = Append(apiCalls, TimezoneCall)
            /\ pc' = "awaitTimezone"
       ELSE /\ apiCalls' = Append(apiCalls, CreateCall(args, args.timeZone))
            /\ pc' = "awaitCreate"
    /\ UNCHANGED <<call, invocations, batch, series, tool, args, now, processed,
                   batchEngines, responses, events, stderr, result>>

\* getCalendarTimezone resolves: createEvent goes on to events.insert
TimezoneResolves ==
    /\ pc = "awaitTimezone"
    /\ responses' = Append(responses, Outcome("calendars.get", TRUE))
    /\ apiCalls' = Append(apiCalls, CreateCall(args, "Europe/Paris"))
    /\ pc' = "awaitCreate"
    /\ UNCHANGED <<call, invocations, batch, series, tool, args, now, processed, handlers,
                   batchEngines, events, stderr, result>>

\* getCalendarTimezone rejects: the catch of createEvent
TimezoneRejects ==
    /\ pc = "awaitTimezone"
    /\ responses' = Append(responses, Outcome("calendars.get", FALSE))
    /\ LET caught == CreateEventCatch("calendars.get")
       IN  IF caught.rethrown
           THEN /\ result' = Failure({caught.message})
                /\ pc' = "done"
                /\ apiCalls' = apiCalls
           ELSE /\ apiCalls' = Append(apiCalls, CreateCall(args, "UTC"))
                /\ pc' = "awaitCreate"
                /\ result' = result
    /\ UNCHANGED <<call, invocations, batch, series, tool, args, now, processed, handlers,
                   batchEngines, events, stderr>>

\* events.insert resolves: without data createEvent throws, with data runTool
\* returns the formatted event
CreateResolves ==
    /\ pc = "awaitCreate"
    /\ responses' = Append(responses, Outcome("events.insert", TRUE))
    /\ \E data \in CreatedData :
         IF data.none
         THEN /\ result' = Failure({CreateEventCatch("no data").message})
              /\ events' = events
         ELSE /\ result' = Success(Created(data, "primary"))
              /\ events' = <<data>>
    /\ pc' = "done"
    /\ UNCHANGED <<call, invocations, batch, series, tool, args, now, processed, handlers,
                   batchEngines, apiCalls, stderr>>

\* events.insert rejects: the catch of createEvent
CreateRejects ==
    /\ pc = "awaitCreate"
    /\ responses' = Append(responses, Outcome("events.insert", FALSE))
    /\ result' = Failure({CreateEventCatch("events.insert").message})
    /\ pc' = "done"
    /\ UNCHANGED <<call, invocations, batch, series, tool, args, now, processed, handlers,
                   batchEngines, apiCalls, events, stderr>>

\* new UpdateEventHandler(); executeWithHandler(handler, processedArgs): the
\* handler starts by reading the target event
RunUpdateEvent ==
    /\ pc = "construct"
    /\ tool = "update-event"
    /\ handlers' = Append(handlers, HandlerOf(tool))
    /\ apiCalls' = Append(apiCalls, GetCall)
    /\ pc' = "awaitGet"
    /\ UNCHANGED <<call, invocations, batch, series, tool, args, now, processed, batchEngines, responses,
                   events, stderr, result>>

\* the target is read: classify it, check the scope, issue the first mutation
GetResolves ==
    /\ pc = "awaitGet"
    /\ \E kind \in TargetKinds :
         /\ series' = [series EXCEPT !.target = kind]
         /\ IF ScopeRejected(args, kind)
            THEN /\ result' = Failure({ScopeOnlyForRecurring})
                 /\ pc' = "done"
                 /\ apiCalls' = apiCalls
            ELSE /\ apiCalls' = Append(apiCalls, FirstMutation(args))
                 /\ pc' = IF ScopeOf(args) = "thisAndFollowing"
                          THEN "awaitTruncate" ELSE "awaitPatch"
                 /\ result' = result
    /\ UNCHANGED <<call, invocations, batch, tool, args, now, processed, handlers, batchEngines, responses,
                   events, stderr>>

\* the target cannot be read: the error is propagated
GetRejects ==
    /\ pc = "awaitGet"
    /\ result' = Failure({"Not Found"})
    /\ pc' = "done"
    /\ UNCHANGED <<call, invocations, batch, series, tool, args, now, processed, handlers, batchEngines,
                   apiCalls, responses, events, stderr>>

\* the patch of scope all / thisEventOnly is applied: confirmation
PatchResolves ==
    /\ pc = "awaitPatch"
    /\ series' = Patched(series, ScopeOf(args))
    /\ result' = Success(<<[kind |-> "updated", id |-> PatchedId(ScopeOf(args))]>>)
    /\ pc' = "done"
    /\ UNCHANGED <<call, invocations, batch, tool, args, now, processed, handlers, batchEngines, apiCalls,
                   responses, events, stderr>>

\* the patch fails: a single update propagates the first error directly
PatchRejects ==
    /\ pc = "awaitPatch"
    /\ result' = Failure({"Google API error"})
    /\ pc' = "done"
    /\ UNCHANGED <<call, invocations, batch, series, tool, args, now, processed, handlers, batchEngines,
                   apiCalls, responses, events, stderr>>

\* step (a) of the split completed: the master ends before futureStartDate;
\* step (b), the create of the new series, is issued
TruncateResolves ==
    /\ pc = "awaitTruncate"
    /\ series' = [series EXCEPT !.master = "truncated"]
    /\ apiCalls' = Append(apiCalls, InsertCall)
    /\ pc' = "awaitInsert"
    /\ UNCHANGED <<call, invocations, batch, tool, args, now, processed, handlers, batchEngines, responses,
                   events, stderr, result>>

\* step (a) fails: nothing was changed, the error is propagated
TruncateRejects ==
    /\ pc = "awaitTruncate"
    /\ result' = Failure({"Google API error"})
    /\ pc' = "done"
    /\ UNCHANGED <<call, invocations, batch, series, tool, args, now, processed, handlers, batchEngines,
                   apiCalls, responses, events, stderr>>

\* step (b) completed: the confirmation names the truncated master and the
\* new series
InsertResolves ==
    /\ pc = "awaitInsert"
    /\ series' = [series EXCEPT !.newSeries = TRUE]
    /\ result' = Success(<<[kind |-> "updated", id |-> "master"],
                           [kind |-> "created", id |-> "newSeries"]>>)
    /\ pc' = "done"
    /\ UNCHANGED <<call, invocations, batch, tool, args, now, processed, handlers, batchEngines, apiCalls,
                   responses, events, stderr>>

\* step (b) fails: partially applied split, reported as an error
InsertRejects ==
    /\ pc = "awaitInsert"
    /\ series' = [series EXCEPT !.master = MasterAfterFailedCreate(series.master)]
    /\ apiCalls' = apiCalls \o CallsAfterFailedCreate
    /\ result' = SplitFailure
    /\ pc' = "done"
    /\ UNCHANGED <<call, invocations, batch, tool, args, now, processed, handlers, batchEngines, responses,
                   events, stderr>>

Next ==
    \/ Invoke
    \/ ParseListEvents
    \/ ParseUpdateEvent
    \/ ParseFreeBusy
    \/ ParseCreateEvent
    \/ Preprocess
    \/ RunListSingle
    \/ RunListMultiple
    \/ ListResolves
    \/ ListRejects
    \/ BatchRetries
    \/ BatchResolves
    \/ BatchRejects
    \/ RunFreeBusy
    \/ RunCreateEvent
    \/ TimezoneResolves
    \/ TimezoneRejects
    \/ CreateResolves
    \/ CreateRejects
    \/ RunUpdateEvent
    \/ GetResolves
    \/ GetRejects
    \/ PatchResolves
    \/ PatchRejects
    \/ TruncateResolves
    \/ TruncateRejects
    \/ InsertResolves
    \/ InsertRejects

Spec == Init /\ [][Next]_vars

----------------------------------------------------------------------------
(* Two list-events invocations side by side.  The callbacks run on one thread
   and hand over to each other where they await: after the preprocessing,
   and while events.list or executeBatch is in flight.  handlers, batchEngines,
   apiCalls and stderr belong to the process; everything else an invocation
   uses is its own. *)

\* arguments of the invocations: one calendar, or two, with calendars in common
ConcurrentInputs ==
    {[calendarId |-> c, timeMin |-> "absent", timeMax |-> "absent"] :
        c \in {PlainString("primary"), PlainString("home"),
               JsonArray(<<JString("primary"), JString("home")>>),
               JsonArray(<<JString("home"), JString("work@x.com")>>)}}

\* what the API holds for position i of the request of invocation k: no event,
\* or one event of its own, all-day or timed
ItemsFor(k, i) ==
    {<<>>} \cup {<<ApiEvent(10 * k + i, 1, st)>> :
                   st \in {v \in StartValues : v.date = <<"1">> \/ v.dateTime = <<"1", "T", "+">>}}

\* the parts of the batch response to the n sub-requests of invocation k
PartsFor(k, n) ==
    {parts \in [1..n -> UNION {{OkResponse(items) : items \in ItemsFor(k, i)} : i \in 1..n}
                        \cup {r \in FailedResponses : r.statusCode = 404}] :
        \A i \in 1..n : parts[i].items \in ItemsFor(k, i)}

\* what events.list returns to invocation k
SingleFor(k) ==
    {[hasItems |-> TRUE, items |-> items] : items \in ItemsFor(k, 1)}
    \cup {[hasItems |-> FALSE, items |-> <<>>]}

\* variant: the event array is one array of the module, never emptied
EventsOwnerShared(k) == 1

\* the invocation whose call allocated the array that invocation k fills:
\* "const events = []" in processBatchResponses, the array map() returns in
\* fetchSingleCalendarEvents
EventsOwner(k) == k

\* the callback is entered: parse and preprocessing, up to the await of
\* tool.handlerFunction
ConcurrentInvoke ==
    /\ Len(invocations) < 2
    /\ \E a \in ConcurrentInputs :
         /\ ListEventsSchemaIssues(a) = {}
         /\ PreprocessListEvents(a).error = ""
         /\ invocations' = Append(invocations,
               [pc |-> "construct", args |-> a, ids |-> PreprocessListEvents(a).ids,
                handler |-> 0, engine |-> 0, answer |-> <<>>, allEvents |-> <<>>,
                result |-> NoResult])
    /\ UNCHANGED <<pc, tool, args, now, processed, handlers, batchEngines, apiCalls,
                   responses, events, stderr, result, series, batch, call>>

\* new tool.handler(); executeWithHandler -> runTool -> fetchEvents up to its
\* await of events.list or of executeBatch
ConcurrentRun ==
    \E k \in 1..Len(invocations) :
       LET inv == invocations[k]
       IN  /\ inv.pc = "construct"
           /\ handlers' = Append(handlers, HandlerOf("list-events"))
           /\ IF IsSingleCalendar(inv.ids)
              THEN /\ apiCalls' = Append(apiCalls,
                                    [api |-> "events.list", calendarId |-> inv.ids[1],
                                     timeMin |-> inv.args.timeMin,
                                     timeMax |-> inv.args.timeMax,
                                     singleEvents |-> TRUE, orderBy |-> "startTime"])
                   /\ batchEngines' = batchEngines
                   /\ invocations' = [invocations EXCEPT
                                        ![k].pc = "awaitList",
                                        ![k].handler = Len(handlers) + 1]
              ELSE /\ apiCalls' = Append(apiCalls,
                                    [api |-> "executeBatch",
                                     requests |-> BuildRequests(inv.ids, inv.args)])
                   /\ batchEngines' = batchEngines + 1
                   /\ invocations' = [invocations EXCEPT
                                        ![k].pc = "awaitBatch",
                                        ![k].handler = Len(handlers) + 1,
                                        ![k].engine = batchEngines + 1]
           /\ UNCHANGED <<pc, tool, args, now, processed, responses, events, stderr,
                          result, series, batch, call>>

\* events.list of an invocation resolves: tag, format and return
ConcurrentListResolves ==
    \E k \in 1..Len(invocations) :
       LET inv == invocations[k]
           o == EventsOwner(k)
       IN  /\ inv.pc = "awaitList"
           /\ \E r \in SingleFor(k) :
                LET filled == invocations[o].allEvents \o TagEvents(r.items, inv.ids[1])
                    kept == [invocations EXCEPT ![o].allEvents = filled]
                IN  invocations' = [kept EXCEPT
                                     ![k].pc = "done",
                                     ![k].answer = r,
                                     ![k].result = Success(FormatEventList(filled, inv.ids))]
           /\ UNCHANGED <<pc, tool, args, now, processed, handlers, batchEngines, apiCalls,
                          responses, events, stderr, result, series, batch, call>>

\* executeBatch of an invocation resolves: process, report, sort, format
ConcurrentBatchResolves ==
    \E k \in 1..Len(invocations) :
       LET inv == invocations[k]
           o == EventsOwner(k)
       IN  /\ inv.pc = "awaitBatch"
           /\ \E parts \in PartsFor(k, Len(inv.ids)) :
                LET p == ProcessBatchResponses(ParseBatchResponse(parts), inv.ids)
                    filled == invocations[o].allEvents \o p.events
                    sorted == SortEventsByStartTime(filled)
                    kept == [invocations EXCEPT ![o].allEvents = filled]
                IN  /\ stderr' = stderr \o ReportedToStderr(p.errors)
                    /\ invocations' = [kept EXCEPT
                                         ![k].pc = "done",
                                         ![k].answer = parts,
                                         ![k].result = Success(FormatEventList(sorted, inv.ids))]
           /\ UNCHANGED <<pc, tool, args, now, processed, handlers, batchEngines, apiCalls,
                          responses, events, result, series, batch, call>>

\* events.list or executeBatch of an invocation rejects
ConcurrentRejects ==
    \E k \in 1..Len(invocations) :
       /\ invocations[k].pc \in {"awaitList", "awaitBatch"}
       /\ invocations' = [invocations EXCEPT
                            ![k].pc = "done",
                            ![k].result = IF invocations[k].pc = "awaitList"
                                          THEN Failure({"Google API error"})
                                          ELSE Failure({"Batch request failed"})]
       /\ UNCHANGED <<pc, tool, args, now, processed, handlers, batchEngines, apiCalls,
                      responses, events, stderr, result, series, batch, call>>

ConcurrentNext ==
    \/ ConcurrentInvoke
    \/ ConcurrentRun
    \/ ConcurrentListResolves
    \/ ConcurrentBatchResolves
    \/ ConcurrentRejects

ConcurrentSpec == Init /\ [][ConcurrentNext]_vars

----------------------------------------------------------------------------
(* The formatting utilities and FreeBusyEventHandler.runTool called directly,
   as their unit tests call them *)

\* events handed to the formatting utilities
UtilEvents ==
    [id : {NoId, <<1, 1>>},
     htmlLink : {NoHtmlLink, "https://calendar.google.com/event?eid=abc"},
     start : StartValues]

\* the optional calendarId argument
CalendarIdArgs == {NoCalendarId, "primary"}

\* arguments handed to FreeBusyEventHandler.runTool
FreeBusyHandlerInputs == {a \in FreeBusyInputs : a.calendars = "absent"}

\* formatEventWithUrl(event, calendarId)
CallFormatEventWithUrl ==
    /\ call = NoCall
    /\ \E e \in UtilEvents : \E calendarId \in CalendarIdArgs :
         call' = [fn |-> "formatEventWithUrl", events |-> <<e>>,
                  calendarId |-> calendarId,
                  value |-> <<FormatEventWithUrl(e, calendarId)>>]
    /\ UNCHANGED <<pc, tool, args, now, processed, handlers, batchEngines, apiCalls,
                   responses, events, stderr, result, series, batch, invocations>>

\* formatEventList(events, calendarId)
CallFormatEventList ==
    /\ call = NoCall
    /\ \E evs \in SeqsUpTo(UtilEvents, MaxEvents) : \E calendarId \in CalendarIdArgs :
         call' = [fn |-> "formatEventList", events |-> evs,
                  calendarId |-> calendarId,
                  value |-> FormatEvents(evs, calendarId)]
    /\ UNCHANGED <<pc, tool, args, now, processed, handlers, batchEngines, apiCalls,
                   responses, events, stderr, result, series, batch, invocations>>

\* handler.runTool(args, oauth2Client) of FreeBusyEventHandler, to its end
CallFreeBusyRunTool ==
    /\ call = NoCall
    /\ \E a \in FreeBusyHandlerInputs : \E answer \in FreeBusyAnswers :
         LET outcome == FreeBusyOutcome(a, answer)
         IN  /\ outcome.calls = <<>> => answer.rejected
             /\ call' = [fn |-> "FreeBusyEventHandler.runTool", args |-> a,
                         calls |-> outcome.calls, answer |-> answer,
                         value |-> outcome.result]
    /\ UNCHANGED <<pc, tool, args, now, processed, handlers, batchEngines, apiCalls,
                   responses, events, stderr, result, series, batch, invocations>>

UnitNext ==
    \/ CallFormatEventWithUrl
    \/ CallFormatEventList
    \/ CallFreeBusyRunTool

UnitSpec == Init /\ [][UnitNext]_vars

----------------------------------------------------------------------------
(* Properties *)

\* the invocation has reached its handler
HandlerRan == handlers # <<>>

ListEventsRan == tool = "list-events" /\ HandlerRan

BatchAnswered == tool = "list-events" /\ pc = "done" /\ responses # <<>>

BlocksOfKind(text, kind) == {p \in 1..Len(text) : text[p].kind = kind}

\* C1: a list-events invocation for exactly one calendar issues one direct
\* events.list call for that calendar and neither constructs nor calls the
\* batch engine.
C1_SingleCalendarNoBatch ==
    (ListEventsRan /\ Len(processed.ids) = 1) =>
        /\ batchEngines = 0
        /\ Len(apiCalls) = 1
        /\ apiCalls[1].api = "events.list"
        /\ apiCalls[1].calendarId = processed.ids[1]
        /\ pc \in {"awaitList", "done"}

C1_Witness ==
    /\ ListEventsRan /\ pc = "done" /\ result.status = "ok"
    /\ args.calendarId = JsonArray(<<JString("work@x.com")>>)
    /\ Len(events) = MaxEvents

\* C2: a list-events invocation for n calendars, 1 < n <= 50, makes exactly
\* one executeBatch call with n sub-requests, the i-th for the i-th calendar
\* of the input, and no direct events.list call.
C2_OneBatchCall ==
    (ListEventsRan /\ Len(processed.ids) > 1) =>
        /\ Len(processed.ids) <= MaxCalendars
        /\ batchEngines = 1
        /\ Len(apiCalls) = 1
        /\ apiCalls[1].api = "executeBatch"
        /\ Len(apiCalls[1].requests) = Len(args.calendarId.elems)
        /\ \A i \in 1..Len(args.calendarId.elems) :
              apiCalls[1].requests[i].calendarId = args.calendarId.elems[i].val

C2_Witness ==
    /\ ListEventsRan /\ pc = "done" /\ result.status = "ok"
    /\ Len(args.calendarId.elems) = MaxCalendars
    /\ Len(apiCalls[1].requests) = MaxCalendars

\* C3: every event of a multi-calendar result carries the calendar identifier
\* at the input position of the sub-response that contained it.
C3_TaggedByPosition ==
    BatchAnswered =>
        \A k \in 1..Len(events) :
            LET i == events[k].id[1]
                j == events[k].id[2]
            IN  /\ i \in 1..Len(responses)
                /\ j \in 1..Len(responses[i].items)
                /\ responses[i].items[j].id = events[k].id
                /\ events[k].calendarId = args.calendarId.elems[i].val

C3_Witness ==
    /\ BatchAnswered
    /\ \E k, l \in 1..Len(events) :
          /\ events[k].id[1] = 3 /\ events[l].id[1] = 2
          /\ events[k].calendarId # events[l].calendarId

\* C4: when the batch call succeeds, failing sub-responses do not fail the
\* invocation: the result is a success that contains every event of every
\* successful sub-response.
C4_PartialFailureSucceeds ==
    BatchAnswered =>
        /\ result.status = "ok"
        /\ \A i \in 1..Len(responses) :
              (responses[i].statusCode = 200) =>
                 \A j \in 1..Len(responses[i].items) :
                    \E p \in BlocksOfKind(result.text, "event") :
                        result.text[p].id = responses[i].items[j].id

C4_Witness ==
    /\ BatchAnswered /\ result.status = "ok"
    /\ Len(responses) = 3
    /\ responses[1].statusCode = 404
    /\ responses[2].statusCode = 200 /\ Len(responses[2].items) = MaxEvents
    /\ responses[3].statusCode = 500

\* C5: for every calendar whose sub-response failed, the result returned to
\* the caller contains a reported failure naming that calendar.
C5_FailuresReportedInResult ==
    BatchAnswered =>
        \A i \in 1..Len(responses) :
            ~IsSuccessful(responses[i]) =>
                \E p \in BlocksOfKind(result.text, "failure") :
                    result.text[p].calendarId = processed.ids[i]

\* C6: a list-events request naming more than 50 calendars is rejected before
\* any handler is constructed and before any call to the calendar API.
C6_TooManyRejected ==
    (tool = "list-events" /\ Len(args.calendarId.elems) > MaxCalendars) =>
        /\ ~HandlerRan
        /\ apiCalls = <<>> /\ batchEngines = 0
        /\ pc \in {"parse", "preprocess", "done"}
        /\ pc = "done" => result.status = "error"

C6_Witness ==
    /\ tool = "list-events" /\ pc = "done"
    /\ Len(args.calendarId.elems) = MaxCalendars + 1
    /\ result.messages =
         {"Invalid JSON format for calendarId: Maximum 50 calendars allowed per request"}

\* the calendarId input is an array that is empty, repeats an identifier, or
\* holds an entry that is not a non-empty string
MalformedIdArray(c) ==
    /\ c.type = "array" \/ (c.bracketed /\ c.jsonOk)
    /\ \/ c.elems = <<>>
       \/ \E i, j \in 1..Len(c.elems) : i < j /\ c.elems[i] = c.elems[j]
       \/ \E i \in 1..Len(c.elems) : c.elems[i].type # "string" \/ c.elems[i].val = ""

\* C7: a list-events request whose calendarId array is empty, holds a
\* duplicate, or holds a non-string or empty-string entry is rejected before
\* the handler runs and before any call to the calendar API.
C7_MalformedIdsRejected ==
    (tool = "list-events" /\ MalformedIdArray(args.calendarId)) =>
        /\ ~HandlerRan
        /\ apiCalls = <<>> /\ batchEngines = 0
        /\ pc \in {"parse", "preprocess", "done"}
        /\ pc = "done" => result.status = "error"

C7_Witness ==
    /\ tool = "list-events" /\ pc = "done"
    /\ args.calendarId = JsonArray(<<JString("primary"), JString("home"), JString("primary")>>)
    /\ result.messages =
         {"Invalid JSON format for calendarId: Duplicate calendar IDs are not allowed"}

\* C8 as stated: the events returned by the multi-calendar aggregator are
\* sorted by start key under the comparison of strings by code units.
C8_SortedByCodeUnits ==
    BatchAnswered =>
        \A k \in 1..(Len(events) - 1) :
            StringLeq(StartKey(events[k]), StartKey(events[k + 1]))

\* C8: the events returned by the multi-calendar aggregator are sorted by
\* start key under the order of localeCompare: no event is followed by one
\* that localeCompare ranks before it.
C8_SortedByLocaleCompare ==
    BatchAnswered =>
        \A k \in 1..(Len(events) - 1) :
            LocaleCompare(StartKey(events[k]), StartKey(events[k + 1])) <= 0

C8_Witness ==
    /\ BatchAnswered /\ Len(events) = MaxEvents
    /\ Len(responses[1].items) > 0 /\ Len(responses[2].items) > 0
    /\ StartKey(responses[1].items[1]) = <<"1", "T", "+">>
    /\ StartKey(responses[2].items[1]) = <<"1", "T", "-">>
    /\ events[1].id = <<2, 1>>

\* the blocks of text between the calendar header at p and the next header
GroupBlocks(text, p) ==
    LET later == {q \in (p + 1)..Len(text) : text[q].kind = "calendar"}
        stop == IF later = {} THEN Len(text) + 1
                ELSE CHOOSE q \in later : \A r \in later : q <= r
    IN  SubSeq(text, p + 1, stop - 1)

IdsOf(s) == [k \in 1..Len(s) |-> s[k].id]

TaggedWith(evs, calendarId) ==
    LET Tagged(e) == e.calendarId = calendarId
    IN  SelectSeq(evs, Tagged)

\* C9: a non-empty result for one calendar is the flat list of its events,
\* with no count header and no calendar header; for several calendars it is a
\* header with the total event count, then one group per calendar that has
\* events, each a calendar header followed by exactly the events tagged with
\* that calendar.
C9_Rendering ==
    (tool = "list-events" /\ pc = "done" /\ result.status = "ok" /\ Len(events) > 0) =>
        LET text == result.text
            headers == BlocksOfKind(text, "calendar")
        IN  IF Len(processed.ids) = 1
            THEN /\ BlocksOfKind(text, "event") = 1..Len(text)
                 /\ IdsOf(text) = IdsOf(events)
            ELSE /\ text[1] = [kind |-> "found", events |-> Len(events),
                               calendars |-> Len(processed.ids)]
                 /\ BlocksOfKind(text, "found") = {1}
                 /\ text[2].kind = "calendar"
                 /\ BlocksOfKind(text, "event") \cup headers = 2..Len(text)
                 /\ \A e \in 1..Len(events) :
                       Cardinality({p \in headers :
                                      text[p].calendarId = events[e].calendarId}) = 1
                 /\ \A p \in headers :
                       /\ GroupBlocks(text, p) # <<>>
                       /\ IdsOf(GroupBlocks(text, p))
                            = IdsOf(TaggedWith(events, text[p].calendarId))

C9_Witness ==
    /\ BatchAnswered /\ Len(events) = MaxEvents
    /\ Cardinality(BlocksOfKind(result.text, "calendar")) = 2
    /\ result.text[1].kind = "found"

\* an update-event request for one occurrence that names no originalStartTime
ThisEventOnlyWithoutOriginal ==
    /\ tool = "update-event" /\ pc \notin {"idle", "parse"}
    /\ args.modificationScope = "thisEventOnly"
    /\ args.originalStartTime = "absent"

OriginalStartTimeRequired ==
    "originalStartTime is required when modificationScope is 'thisEventOnly'"

FutureStartDateNotAfterNow ==
    /\ tool = "update-event" /\ pc \notin {"idle", "parse"}
    /\ args.modificationScope = "thisAndFollowing"
    /\ args.futureStartDate.kind \in {"rfc3339", "other"}
    /\ args.futureStartDate.t # -1 /\ args.futureStartDate.t <= now

MustBeInTheFuture == "futureStartDate must be in the future"

ThisAndFollowingWithoutFuture ==
    /\ tool = "update-event" /\ pc \notin {"idle", "parse"}
    /\ args.modificationScope = "thisAndFollowing"
    /\ args.futureStartDate.kind = "absent"

FutureStartDateRequired ==
    "futureStartDate is required when modificationScope is 'thisAndFollowing'"

UpdateEventRan == tool = "update-event" /\ HandlerRan

IsMutation(c) == c.api \in {"events.patch", "events.insert"}

Mutations == SelectSeq(apiCalls, IsMutation)

WholeRecordPatch == [api |-> "events.patch", eventId |-> "master", body |-> "fields"]

TruncatingPatch == [api |-> "events.patch", eventId |-> "master", body |-> "until"]

\* an update-event request in the legacy format: well-formed, scope omitted or
\* 'all', neither originalStartTime nor futureStartDate
LegacyUpdate ==
    /\ tool = "update-event" /\ pc \notin {"idle", "parse"}
    /\ args.structure = "ok"
    /\ args.modificationScope \in {"absent", "all"}
    /\ args.originalStartTime = "absent"
    /\ args.futureStartDate.kind = "absent"

\* C13: an update-event request with modificationScope omitted or 'all'
\* passes validation without originalStartTime and without futureStartDate,
\* and an omitted scope is treated as 'all': the only mutation issued is the
\* whole-record patch of the target, and a success leaves the master patched,
\* no instance patched and no new series.
C13_LegacyFormatPatchesMaster ==
    LegacyUpdate =>
        /\ result.status = "error" => HandlerRan
        /\ pc = "done" => HandlerRan
        /\ \A i \in 1..Len(Mutations) : Mutations[i] = WholeRecordPatch
        /\ Len(Mutations) <= 1
        /\ (pc = "done" /\ result.status = "ok") =>
              /\ Mutations = <<WholeRecordPatch>>
              /\ series.master = "patched" /\ series.instance = "intact"
              /\ ~series.newSeries

C13_Witness ==
    /\ LegacyUpdate /\ args.modificationScope = "absent"
    /\ pc = "done" /\ result.status = "ok"
    /\ series.target = "recurring" /\ series.master = "patched"

\* the target of the update is a plain single event
NonRecurringTarget == UpdateEventRan /\ series.target = "single"

\* C14: an update of a non-recurring event is rejected exactly when an
\* explicit scope other than 'all' is given: with 'thisEventOnly' or
\* 'thisAndFollowing' it ends with the message that the scope only applies to
\* recurring events and no patch or insert is issued; with 'all' or no scope
\* the scope check lets it through, the patch is issued and the update
\* succeeds when the patch does.
C14_NonRecurringScopeCheck ==
    NonRecurringTarget =>
        IF args.modificationScope \in {"thisEventOnly", "thisAndFollowing"}
        THEN /\ pc = "done"
             /\ result = Failure({ScopeOnlyForRecurring})
             /\ Mutations = <<>>
             /\ series.master = "intact" /\ series.instance = "intact"
        ELSE /\ ScopeOnlyForRecurring \notin result.messages
             /\ Mutations = <<WholeRecordPatch>>
             /\ pc = "done" =>
                   \/ result.status = "ok" /\ series.master = "patched"
                   \/ result = Failure({"Google API error"}) /\ series.master = "intact"

C14_Witness ==
    /\ NonRecurringTarget /\ pc = "done"
    /\ args.modificationScope = "thisEventOnly"
    /\ result.messages = {ScopeOnlyForRecurring}

C14_WitnessAccepted ==
    /\ NonRecurringTarget /\ pc = "done"
    /\ args.modificationScope = "all" /\ result.status = "ok"

\* C16: in a thisAndFollowing split the create of the new series is issued
\* only after the patch that truncates the master has completed (it follows
\* that patch directly and the master is truncated whenever it is present),
\* and when the create fails no further call is issued and the master stays
\* truncated.
C16_CreateAfterTruncateNoRollback ==
    UpdateEventRan =>
        /\ \A i \in 1..Len(apiCalls) :
              apiCalls[i] = InsertCall =>
                 /\ i > 1 /\ apiCalls[i - 1] = TruncatingPatch
                 /\ series.master = "truncated"
        /\ (pc = "done" /\ result.status = "error" /\ Mutations # <<>>
               /\ Mutations[Len(Mutations)] = InsertCall) =>
              /\ series.master = "truncated"
              /\ ~series.newSeries
              /\ apiCalls[Len(apiCalls)] = InsertCall

C16_Witness ==
    /\ UpdateEventRan /\ pc = "done" /\ result.status = "error"
    /\ apiCalls = <<GetCall, TruncatingPatch, InsertCall>>
    /\ series.master = "truncated"

\* step (a) of a split succeeded and step (b) failed
SplitHalfApplied ==
    /\ UpdateEventRan /\ pc = "done"
    /\ series.master = "truncated" /\ ~series.newSeries

\* C17: when step (a) of a series split succeeds and step (b) fails, the
\* invocation ends in an error outcome of kind PartialFailure that states
\* that the master was already truncated; it never ends in a success and
\* never in an error without that statement.
C17_PartialFailureReported ==
    SplitHalfApplied =>
        /\ result.status = "error"
        /\ PartialFailure \in result.messages

C17_Witness ==
    /\ SplitHalfApplied
    /\ args.modificationScope = "thisAndFollowing"
    /\ result = Failure({PartialFailure})

\* the sub-requests handed to executeBatch
BatchRequests == apiCalls[Len(apiCalls)].requests

\* C18: for a batch of N sub-requests (1 <= N <= 50) the engine returns
\* exactly N outcomes and outcome i belongs to sub-request i: it is what part
\* i of the response carries (the events of an outcome are those the API
\* returned for request i); a part that fails to parse yields the error
\* outcome at its own position and every other position keeps its outcome.
C18_OutcomesMatchRequests ==
    BatchAnswered =>
        /\ Len(BatchRequests) \in 1..MaxCalendars
        /\ Len(responses) = Len(BatchRequests)
        /\ Len(batch.parts) = Len(BatchRequests)
        /\ \A i \in 1..Len(BatchRequests) :
              /\ IF batch.parts[i] = GarbledPart
                 THEN responses[i] = ParseErrorOutcome
                 ELSE responses[i] = batch.parts[i]
              /\ \A j \in 1..Len(responses[i].items) :
                    responses[i].items[j].id = <<i, j>>

C18_Witness ==
    /\ BatchAnswered /\ Len(responses) = 3
    /\ batch.parts[2] = GarbledPart /\ responses[2] = ParseErrorOutcome
    /\ responses[1].statusCode = 404 /\ Len(responses[3].items) = 1

\* C19: the engine sends the whole batch call again only after a transport
\* failure, a 429 or a 5xx of the entire call; it never issues more than
\* MaxAttempts sends; a failure that is not retried ends the invocation with
\* an error (for a retryable failure only at the ceiling); a call that
\* succeeded as a whole is never sent again, whatever its sub-responses.
C19_BoundedWholeBatchRetry ==
    [][/\ batch'.sends <= MaxAttempts
       /\ batch'.sends # batch.sends =>
             /\ batch'.sends = batch.sends + 1
             /\ batch.last # "ok"
             /\ batch.sends > 0 => (pc = "awaitBatch" /\ Retryable(batch'.last))
       /\ (pc = "awaitBatch" /\ batch'.last \in WholeCallFailures
             /\ batch'.sends = batch.sends) =>
             /\ pc' = "done" /\ result'.status = "error"
             /\ Retryable(batch'.last) => batch.sends = MaxAttempts
       /\ (pc = "awaitBatch" /\ batch'.last = "ok") =>
             /\ pc' = "done" /\ result'.status = "ok"
             /\ batch'.sends = batch.sends
      ]_vars

C19_Witness ==
    /\ tool = "list-events" /\ pc = "done" /\ result.status = "error"
    /\ batch.sends = MaxAttempts /\ batch.last = "429"

C19_WitnessRecovered ==
    /\ BatchAnswered /\ batch.sends = 2 /\ batch.last = "ok"
    /\ \E i \in 1..Len(responses) : responses[i].statusCode = 500

\* a get-freebusy invocation whose arguments satisfy the registered schema,
\* with a range within three months, has ended
FreeBusyAccepted ==
    /\ tool = "get-freebusy" /\ pc = "done"
    /\ FreeBusySchemaIssues(args) = {}
    /\ args.range = "within"

\* C20: a get-freebusy invocation whose arguments satisfy the registered
\* get-freebusy schema (calendars: list of {id}, timeMin, timeMax with
\* timezone, range within 3 months) leads to one freebusy.query call and a
\* non-error text result.
C20_FreeBusyQueried ==
    FreeBusyAccepted =>
        /\ Len(apiCalls) = 1 /\ apiCalls[1].api = "freebusy.query"
        /\ result.status = "ok"

\* the arguments of the invocation satisfy the schema of its tool
SchemaPassed ==
    CASE tool = "list-events" -> ListEventsSchemaIssues(args) = {}
      [] tool = "update-event" -> UpdateEventSchemaIssues(args, now) = {}
      [] tool = "get-freebusy" -> FreeBusySchemaIssues(args) = {}
      [] tool = "create-event" -> CreateEventSchemaIssues(args) = {}
      [] OTHER -> FALSE

\* the preprocessing of the tool, where it has one, does not throw
PreprocessPassed ==
    tool = "list-events" => PreprocessListEvents(args).error = ""

\* C15: for every registered tool an invocation runs schema validation, then
\* argument preprocessing, then handler construction and execution; when
\* validation or preprocessing throws, the invocation ends with an error, no
\* handler is constructed and no calendar API call is issued.
C15_ValidateThenPreprocessThenRun ==
    [][/\ pc' = "preprocess" => (pc = "parse" /\ SchemaPassed')
       /\ pc' = "construct" => (pc = "preprocess" /\ SchemaPassed' /\ PreprocessPassed')
       /\ handlers' # handlers =>
             (pc = "construct" /\ handlers = <<>> /\ SchemaPassed /\ PreprocessPassed)
       /\ apiCalls' # apiCalls => handlers' # <<>>
       /\ (\/ pc = "parse" /\ pc' # pc /\ ~SchemaPassed'
           \/ pc = "preprocess" /\ pc' # pc /\ ~PreprocessPassed') =>
             /\ pc' = "done" /\ result'.status = "error"
             /\ handlers' = <<>> /\ apiCalls' = <<>>
       /\ (pc' = "done" /\ handlers' = <<>>) =>
             (apiCalls' = <<>> /\ result'.status = "error")
      ]_vars

C15_Witness ==
    /\ tool = "list-events" /\ pc = "done"
    /\ SchemaPassed /\ ~PreprocessPassed
    /\ result.status = "error" /\ handlers = <<>> /\ apiCalls = <<>>

C15_WitnessRan ==
    /\ tool = "get-freebusy" /\ pc = "done"
    /\ SchemaPassed /\ handlers = <<"FreeBusyEventHandler">>

\* an update-event request of a scope that does not use futureStartDate, which
\* carries a futureStartDate naming an instant not after the clock
UnusedFutureStartDateNotAfterNow ==
    /\ tool = "update-event" /\ pc \notin {"idle", "parse"}
    /\ args.modificationScope \in {"absent", "all", "thisEventOnly"}
    /\ args.futureStartDate.kind \in {"rfc3339", "other"}
    /\ args.futureStartDate.t # -1 /\ args.futureStartDate.t <= now

\* C27: the future check on futureStartDate applies whatever the scope: a
\* request with scope 'all', 'thisEventOnly' or no scope and a futureStartDate
\* not after the current time is rejected by validation (no handler, no API
\* call), with the "must be in the future" issue whenever the refinements run.
C27_FutureCheckForEveryScope ==
    UnusedFutureStartDateNotAfterNow =>
        /\ pc = "done" /\ result.status = "error"
        /\ ~HandlerRan /\ apiCalls = <<>>
        /\ ~UpdateEventParseAborted(args) => MustBeInTheFuture \in result.messages

C27_Witness ==
    /\ UnusedFutureStartDateNotAfterNow
    /\ args.modificationScope = "all" /\ args.structure = "ok"
    /\ args.originalStartTime = "absent" /\ args.futureStartDate.kind = "rfc3339"
    /\ result.messages = {MustBeInTheFuture}

\* position i of the batch answered with status 200 and an items field
AnsweredWithItems(i) == responses[i].statusCode = 200 /\ responses[i].hasItems

\* no sub-response brought an event: each failed or carried zero events
NothingFound ==
    /\ BatchAnswered
    /\ \A i \in 1..Len(responses) :
          ~AnsweredWithItems(i) \/ responses[i].items = <<>>

NoEventsFound(n) == <<[kind |-> "none", calendars |-> n]>>

\* C28: in a multi-calendar list-events call where every sub-response fails or
\* carries zero events, the invocation returns the non-error text "No events
\* found in N calendar(s)." with N the number of requested calendars, the same
\* whether the calendars were empty or failed.
C28_NoEventsFoundText ==
    NothingFound =>
        /\ result = Success(NoEventsFound(Len(processed.ids)))
        /\ Len(processed.ids) = Len(apiCalls[1].requests)

C28_Witness ==
    /\ NothingFound /\ Len(responses) = 2
    /\ responses[1].statusCode = 404 /\ responses[2].statusCode = 500
    /\ result.text = NoEventsFound(2)

C28_WitnessEmpty ==
    /\ NothingFound /\ Len(responses) = 2
    /\ AnsweredWithItems(1) /\ AnsweredWithItems(2)
    /\ result.text = NoEventsFound(2)

\* the ids <<i, j>> of the items the successful positions carry
ItemIdsAnswered ==
    UNION {{responses[i].items[j].id : j \in 1..Len(responses[i].items)} :
             i \in {k \in 1..Len(responses) : AnsweredWithItems(k)}}

\* C29: processBatchResponses partitions the sub-responses: position i
\* contributes its tagged events exactly when its status is 200 and its body
\* has an items field, and exactly one error entry for calendar i otherwise;
\* error entries plus successful positions number the sub-responses, and the
\* returned (and rendered) events are the items of the successful positions,
\* none dropped and none duplicated.
C29_Partition ==
    BatchAnswered =>
        LET n == Len(responses)
            ok == {i \in 1..n : AnsweredWithItems(i)}
            errorsFor(i) == {k \in 1..Len(stderr) :
                               stderr[k].calendarId = processed.ids[i]}
            eventsOf(i) == TaggedWith(events, processed.ids[i])
        IN  /\ Len(stderr) + Cardinality(ok) = n
            /\ \A i \in 1..n :
                  IF i \in ok
                  THEN /\ errorsFor(i) = {}
                       /\ Len(eventsOf(i)) = Len(responses[i].items)
                  ELSE /\ Cardinality(errorsFor(i)) = 1
                       /\ eventsOf(i) = <<>>
            /\ {events[k].id : k \in 1..Len(events)} = ItemIdsAnswered
            /\ Len(events) = Cardinality(ItemIdsAnswered)
            /\ Cardinality(BlocksOfKind(result.text, "event")) = Len(events)

C29_Witness ==
    /\ BatchAnswered /\ Len(responses) = 3
    /\ responses[1].statusCode = 200 /\ ~responses[1].hasItems
    /\ Len(responses[2].items) = 2 /\ responses[3].statusCode = 404
    /\ Len(stderr) = 2 /\ Len(events) = 2

\* a.id before b.id in the order of the merged, unsorted list: by position of
\* the calendar, then by position in the items the API returned
MergedBefore(a, b) ==
    \/ a.id[1] < b.id[1]
    \/ a.id[1] = b.id[1] /\ a.id[2] < b.id[2]

\* the items of position i are already sorted by start key
ReturnedSorted(i) ==
    \A j \in 1..(Len(responses[i].items) - 1) :
       LocaleCompare(StartKey(responses[i].items[j]),
                     StartKey(responses[i].items[j + 1])) <= 0

\* C30: the sort is stable: two events whose start keys compare equal keep the
\* order of the merged list (calendars in input order, then the order the API
\* returned); so the events of a calendar whose items arrived sorted by start
\* key keep that order in the result and in the rendered group.
C30_StableOnTies ==
    BatchAnswered =>
        /\ \A p, q \in 1..Len(events) :
              (p < q /\ LocaleCompare(StartKey(events[p]), StartKey(events[q])) = 0)
                 => MergedBefore(events[p], events[q])
        /\ \A i \in 1..Len(responses) :
              (AnsweredWithItems(i) /\ ReturnedSorted(i)) =>
                 /\ IdsOf(TaggedWith(events, processed.ids[i])) = IdsOf(responses[i].items)
                 /\ \A h \in BlocksOfKind(result.text, "calendar") :
                       result.text[h].calendarId = processed.ids[i] =>
                          IdsOf(GroupBlocks(result.text, h)) = IdsOf(responses[i].items)

C30_Witness ==
    /\ BatchAnswered /\ Len(responses) = 2 /\ Len(events) = 2
    /\ Len(responses[1].items) = 1 /\ Len(responses[2].items) = 1
    /\ StartKey(events[1]) = StartKey(events[2]) /\ StartKey(events[1]) # NoString
    /\ IdsOf(events) = << <<1, 1>>, <<2, 1>> >>

C30_WitnessGroup ==
    /\ BatchAnswered /\ Len(responses) = 2
    /\ Len(responses[2].items) = 2 /\ ReturnedSorted(2)
    /\ StartKey(events[1]) = StartKey(events[2])
    /\ Cardinality(BlocksOfKind(result.text, "calendar")) = 1

\* a get-freebusy request the registered schema accepted has run to its end
FreeBusyFinished ==
    /\ tool = "get-freebusy" /\ pc = "done"
    /\ FreeBusySchemaIssues(args) = {}

FreeBusyQueries == {k \in 1..Len(apiCalls) : apiCalls[k].api = "freebusy.query"}

\* C22: get-freebusy is limited to three months: a request over the limit
\* makes no freebusy.query call and returns the "must be less than 3 months"
\* text; a request within the limit issues the query.
C22_ThreeMonthLimit ==
    FreeBusyFinished =>
        IF args.range = "over"
        THEN /\ FreeBusyQueries = {}
             /\ result = Success(<<[kind |-> "rangeTooLong"]>>)
        ELSE FreeBusyQueries # {}

\* C24: in create-event the first failing external call ends the invocation:
\* the translated error is what the caller receives, the failed call is not
\* issued again, no later API call is issued (a failed timezone lookup means
\* no events.insert) and no success text is returned.
C24_FirstErrorPropagates ==
    tool = "create-event" =>
        \A k \in 1..Len(responses) :
           ~responses[k].ok =>
              /\ pc = "done"
              /\ result = Failure({"Google API error: " \o responses[k].api})
              /\ k = Len(responses) /\ Len(apiCalls) = k
              /\ apiCalls[k].api = responses[k].api
              /\ \A j \in 1..(k - 1) : apiCalls[j].api # apiCalls[k].api

C24_Witness ==
    /\ tool = "create-event" /\ pc = "done"
    /\ responses = <<Outcome("calendars.get", FALSE)>>
    /\ apiCalls = <<TimezoneCall>>
    /\ result.status = "error"

C24_WitnessInsert ==
    /\ tool = "create-event" /\ pc = "done"
    /\ responses = <<Outcome("calendars.get", TRUE), Outcome("events.insert", FALSE)>>
    /\ Len(apiCalls) = 2 /\ result.status = "error"

\* C26: an event given a date-only start and end is created as given (the
\* insert carries the two dates, no time of day added), so that retrieving it
\* renders the same date-only Start and End.
C26_DateOnlyRoundTrip ==
    (tool = "create-event" /\ pc = "done" /\ args.structure = "ok"
       /\ args.boundaries = "dateOnly") =>
        /\ HandlerRan
        /\ \E k \in 1..Len(apiCalls) :
              /\ apiCalls[k].api = "events.insert"
              /\ apiCalls[k].start.value = "dateOnly"
              /\ apiCalls[k].end.value = "dateOnly"

\* formatEventWithUrl or formatEventList has been called
FormatterCalled == call.fn \in {"formatEventWithUrl", "formatEventList"}

\* the link the priority rule gives event e under the calendarId argument c
LinkByPriority(e, c) ==
    IF e.htmlLink # NoHtmlLink THEN [kind |-> "htmlLink", url |-> e.htmlLink]
    ELSE IF c # NoCalendarId /\ e.id # NoId
    THEN [kind |-> "generated", url |-> [eid |-> e.id, cid |-> c]]
    ELSE [kind |-> "none"]

\* C25: formatEventWithUrl links the event by priority: its htmlLink when
\* present, else the URL generated from the calendarId argument and the event
\* id when both exist, else no link line; formatEventList renders every event
\* by the same rule, in order, and an empty list as the empty text.
C25_LinkPriority ==
    FormatterCalled =>
        /\ Len(call.value) = Len(call.events)
        /\ \A i \in 1..Len(call.events) :
              /\ call.value[i].link = LinkByPriority(call.events[i], call.calendarId)
              /\ call.value[i].id = call.events[i].id
        /\ call.events = <<>> => call.value = <<>>

C25_Witness ==
    /\ call.fn = "formatEventWithUrl"
    /\ call.events[1].htmlLink # NoHtmlLink /\ call.events[1].id # NoId
    /\ call.calendarId # NoCalendarId
    /\ call.value[1].link.kind = "htmlLink"

C25_WitnessGenerated ==
    /\ call.fn = "formatEventList" /\ Len(call.events) = 2
    /\ call.calendarId # NoCalendarId
    /\ call.value[1].link.kind = "generated" /\ call.value[2].link.kind = "none"

C25_WitnessEmpty ==
    /\ call.fn = "formatEventList" /\ call.events = <<>> /\ call.value = <<>>

\* FreeBusyEventHandler.runTool was called and freebusy.query answered
FreeBusyAnswered ==
    /\ call.fn = "FreeBusyEventHandler.runTool"
    /\ call.calls # <<>> /\ ~call.answer.rejected

\* C21: in a free/busy result every calendar of the response has its own line,
\* in order: a calendar with the notFound marker a "cannot check availability"
\* line, any other calendar an "available" line when it has no busy interval
\* and otherwise a line with its busy intervals; the request does not fail.
C21_NotFoundPerEntry ==
    FreeBusyAnswered =>
        LET calendars == call.answer.calendars
            text == call.value.text
        IN  /\ call.value.status = "ok"
            /\ Len(text) = Len(calendars)
            /\ \A i \in 1..Len(calendars) :
                  /\ text[i].email = calendars[i].email
                  /\ text[i].kind = "cannotCheck" <=> calendars[i].errors = "notFound"
                  /\ text[i].kind = "available" <=>
                        (calendars[i].errors # "notFound" /\ calendars[i].busy = <<>>)
                  /\ text[i].kind = "busy" =>
                        (text[i].slots = calendars[i].busy /\ calendars[i].busy # <<>>)

C21_Witness ==
    /\ FreeBusyAnswered
    /\ Len(call.answer.calendars) = 2
    /\ call.answer.calendars[1].errors = "notFound"
    /\ call.answer.calendars[2].errors = "none"
    /\ Len(call.answer.calendars[2].busy) = 2
    /\ call.value.text[1].kind = "cannotCheck" /\ call.value.text[2].kind = "busy"

\* what invocation inv returns when it runs alone and the API answers the same
ResultAlone(inv) ==
    IF IsSingleCalendar(inv.ids)
    THEN Success(FormatEventList(TagEvents(inv.answer.items, inv.ids[1]), inv.ids))
    ELSE LET p == ProcessBatchResponses(ParseBatchResponse(inv.answer), inv.ids)
         IN  Success(FormatEventList(SortEventsByStartTime(p.events), inv.ids))

\* the ids of the events the API returned to invocation inv
OwnItemIds(inv) ==
    IF IsSingleCalendar(inv.ids)
    THEN {inv.answer.items[j].id : j \in 1..Len(inv.answer.items)}
    ELSE UNION {{inv.answer[i].items[j].id : j \in 1..Len(inv.answer[i].items)} :
                  i \in {h \in 1..Len(inv.answer) : inv.answer[h].statusCode = 200}}

\* invocation k has returned a text
Returned(k) == invocations[k].pc = "done" /\ invocations[k].result.status = "ok"

\* C23: two list-events invocations interleaved at their awaits do not
\* interfere: the result of each is the one it returns when run alone, its
\* events are exactly the events the API returned to it, each linked to the
\* calendar of its own request the event came from; no handler or batch engine
\* belongs to both, and the event array of each holds its own events only.
C23_NoInterference ==
    /\ \A k \in 1..Len(invocations) :
          Returned(k) =>
             LET inv == invocations[k]
                 text == inv.result.text
                 shown == BlocksOfKind(text, "event")
             IN  /\ inv.result = ResultAlone(inv)
                 /\ {text[b].id : b \in shown} = OwnItemIds(inv)
                 /\ Cardinality(shown) = Cardinality(OwnItemIds(inv))
                 /\ \A b \in shown :
                       text[b].link.url.cid = inv.ids[text[b].id[1] - 10 * k]
    /\ \A k \in 1..Len(invocations) :
          LET held == invocations[k].allEvents
          IN  IF Returned(k)
              THEN {held[j].id : j \in 1..Len(held)} = OwnItemIds(invocations[k])
              ELSE held = <<>>
    /\ \A k, l \in 1..Len(invocations) :
          k # l =>
             /\ invocations[k].handler # 0 => invocations[k].handler # invocations[l].handler
             /\ invocations[k].engine # 0 => invocations[k].engine # invocations[l].engine

\* both invocations had their batch in flight at once, the second answered
\* first, and both returned events of calendars they share
C23_Witness ==
    /\ Len(invocations) = 2 /\ Returned(1) /\ Returned(2)
    /\ Len(apiCalls) = 2 /\ apiCalls[1].api = "executeBatch" /\ apiCalls[2].api = "executeBatch"
    /\ invocations[1].handler = 2 /\ invocations[2].handler = 1
    /\ Len(invocations[1].allEvents) = 2 /\ Len(invocations[2].allEvents) = 2
    /\ invocations[1].ids # invocations[2].ids

====
